---- MODULE Spec2Model ----
(***************************************************************************)
(* A model of one session of HijackHttpRequest (src/client.go): the        *)
(* validation of the options, the handshake (request, dial, Do, Hijack),   *)
(* and streamData with its two goroutines and three channels.              *)
(*                                                                         *)
(* The main goroutine, the inbound goroutine (stream -> local sinks) and   *)
(* the outbound goroutine (local input -> stream) each have a program      *)
(* counter; an action is one step of one of them between two points where  *)
(* the Go scheduler may switch.                                            *)
(***************************************************************************)
EXTENDS Naturals, Sequences, FiniteSets

VARIABLES
    options,    \* HijackHttpOptions: Method, Url, InputStream, Data, Log
    pc,         \* position of the goroutine running HijackHttpRequest
    ret,        \* value returned by HijackHttpRequest (Unset until it returns)
    reqBuilt,   \* createHijackHttpRequest returned a request
    conn,       \* the dialed net.Conn: "none", "open" or "closed"
    ccConn,     \* does the ClientConn still hold the connection (cc.c != nil)
    doErr,      \* what clientconn.Do returned (Unset until it was called)
    defers,     \* the deferred calls of HijackHttpRequest, last registered first
    started,    \* streamData has been entered and its goroutines spawned
    inPc,       \* position of the inbound goroutine
    inErr,      \* its local variable err
    received,   \* chunks the inbound copy has delivered to the local sinks
    outPc,      \* position of the outbound goroutine
    outErr,     \* its local variable err (the outer one)
    cwErr,      \* the err that shadows it inside the CloseWrite if-statement
    consumed,   \* chunks the outbound copy has read from options.InputStream
    errsIn,     \* chan error, capacity 1: result of the outbound goroutine
    errsOut,    \* chan error, capacity 1: result of the inbound goroutine
    exit,       \* chan bool, unbuffered: only ever closed
    rwcLog,     \* the calls made on rwc, in order: "write", "closeWrite", "close"
    debugLog,   \* the messages options.Log.Debugf was given by the caller's logger
    dialed,     \* the protocol, the address and the kind of dial of the dial made
    reqHeader,  \* the Header of the request createHijackHttpRequest built
    brBuf,      \* the inbound units br holds buffered and unread after the hijack
    connNext,   \* the number of the next inbound unit to arrive on the connection
    readLog,    \* the inbound units the inbound copy has read, in order
    stdout,     \* what options.OutputStream has been given
    stderr,     \* what options.ErrorStream has been given
    chanOps,    \* per channel of streamData: the sends and the closes made on it
    srvPc,      \* position of a server-side handler (HijackServer, CloseStreams)
    srvArgs,    \* the streams the handler passes to CloseStreams
    srvIdx,     \* the index of CloseStreams' loop
    srvRet,     \* what HijackServer returned (Unset until it returns)
    srvLog      \* the calls made on the server-side streams, in order

optVars  == <<options>>
mainVars == <<pc, ret, reqBuilt, conn, ccConn, doErr, defers, started>>
inVars   == <<inPc, inErr, received>>
outVars  == <<outPc, outErr, cwErr, consumed>>
chanVars == <<errsIn, errsOut, exit>>
ioVars   == <<rwcLog, debugLog>>
hsVars   == <<dialed, reqHeader>>
brVars   == <<brBuf, connNext, readLog>>
sinkVars == <<stdout, stderr>>
opsVars  == <<chanOps>>
srvVars  == <<srvPc, srvArgs, srvIdx, srvRet, srvLog>>
vars     == <<optVars, mainVars, inVars, outVars, chanVars, ioVars,
              hsVars, brVars, sinkVars, opsVars, srvVars>>

----------------------------------------------------------------------------
(* Bounds of the model. *)

\* longest local input, in chunks read by io.Copy
MaxInput == 2
\* most chunks the peer sends before the inbound copy ends
MaxInbound == 2
\* most inbound chunks the HTTP layer has read ahead when it is hijacked
MaxBuffered == 1
\* most streams passed to CloseStreams
MaxStreams == 2

(* Values. *)
Nil   == "nil"
Unset == "unset"

ErrMissingMethod == "Method not set"
ErrMissingUrl    == "Url not set"
ErrMarshal       == "json.Marshal failed"
ErrNewRequest    == "http.NewRequest failed"
ErrParse         == "url.Parse failed"
ErrDial          == "dial failed"
ErrDo            == "clientconn.Do failed"
ErrInbound       == "inbound copy failed"
ErrInputRead     == "input read failed"
ErrWrite         == "stream write failed"
ErrCloseWrite    == "CloseWrite failed"

\* capacity of errsIn and of errsOut
ErrsCap == 1

ErrSinkWrite     == "sink write failed"
ErrFraming       == "framing error"
ErrHijack        == "server hijack failed"

Methods == {"", "POST"}

\* the locators of the model: with and without a port, the three kinds of
\* scheme, and an IPv6 literal as host
DefaultUrl == "http://host/exec"
Urls == {"", DefaultUrl, "http://host:8080/exec", "https://host/exec",
         "https://host:8443/exec", "tcp://host/exec", "https://[::1]/exec",
         "unix:///var/run/x.sock"}

\* options.Header: a map from keys to lists of values; nil and the empty
\* map are the same here
NoHeader == [k \in {} |-> <<>>]
Headers ==
    { NoHeader,
      [k \in {"User-Agent"} |-> <<"agent-1", "agent-2">>],
      [k \in {"Content-Type"} |-> <<"application/json">>],
      [k \in {"User-Agent", "X-Empty"} |->
          IF k = "X-Empty" THEN <<>> ELSE <<"agent-1">>] }

\* options.InputStream: nil, or a reader that holds len chunks
InputStreams == {[nil |-> TRUE, len |-> 0]} \cup
                {[nil |-> FALSE, len |-> n] : n \in 0..MaxInput}

\* a channel of errors: its buffer and whether it has been closed
NewChan == [buf |-> <<>>, closed |-> FALSE]

----------------------------------------------------------------------------
\* The options of the sessions modelled.  PumpOptions: every combination of
\* Method, Url (empty or not), InputStream and Log, for a raw session.
\* HandshakeOptions: every locator, every Header and a request payload, one
\* at a time.  InboundOptions: both modes with every combination of sinks.
PumpOptions ==
    [Method : Methods, Url : {"", DefaultUrl},
     InputStream : InputStreams,
     Data : {Nil},
     Log : {Nil, "logger"},
     Header : {NoHeader},
     DockerTermProtocol : {FALSE},
     OutputStream : {"stdout"},
     ErrorStream : {"stderr"}]

\* a session with no local input and the options u, h and d
Handshake(u, h, d) ==
    [Method |-> "POST", Url |-> u,
     InputStream |-> [nil |-> TRUE, len |-> 0],
     Data |-> d,
     Log |-> Nil,
     Header |-> h,
     DockerTermProtocol |-> FALSE,
     OutputStream |-> "stdout",
     ErrorStream |-> "stderr"]

HandshakeOptions ==
    {Handshake(u, NoHeader, Nil) : u \in Urls \ {""}} \cup
    {Handshake(DefaultUrl, h, Nil) : h \in Headers} \cup
    {Handshake(DefaultUrl, NoHeader, "data")}

InboundOptions ==
    [Method : {"POST"}, Url : {DefaultUrl},
     InputStream : {[nil |-> TRUE, len |-> 0]},
     Data : {Nil},
     Log : {Nil},
     Header : {NoHeader},
     DockerTermProtocol : BOOLEAN,
     OutputStream : {Nil, "stdout"},
     ErrorStream : {Nil, "stderr"}]

Options == PumpOptions \cup HandshakeOptions \cup InboundOptions

\* no channel operation has been made
NoOps == [c \in {"errsIn", "errsOut", "exit"} |->
            [sends |-> 0, closes |-> 0, senders |-> {}, closers |-> {}]]

\* the state of a session before HijackHttpRequest has taken a step
ClientStart ==
    /\ pc = "validate"
    /\ ret = Unset
    /\ reqBuilt = FALSE
    /\ conn = "none"
    /\ ccConn = FALSE
    /\ doErr = Unset
    /\ defers = <<>>
    /\ started = FALSE
    /\ inPc = "idle"
    /\ inErr = Nil
    /\ received = 0
    /\ outPc = "idle"
    /\ outErr = Nil
    /\ cwErr = Nil
    /\ consumed = 0
    /\ errsIn = NewChan
    /\ errsOut = NewChan
    /\ exit = NewChan
    /\ rwcLog = <<>>
    /\ debugLog = <<>>
    /\ dialed = <<>>
    /\ reqHeader = NoHeader
    /\ brBuf = <<>>
    /\ connNext = 1
    /\ readLog = <<>>
    /\ stdout = <<>>
    /\ stderr = <<>>
    /\ chanOps = NoOps

\* no server-side handler runs
ServerIdle ==
    /\ srvPc = "idle"
    /\ srvArgs = <<>>
    /\ srvIdx = 0
    /\ srvRet = [in |-> Nil, out |-> Nil, err |-> Unset]
    /\ srvLog = <<>>

Init ==
    /\ options \in Options
    /\ ClientStart
    /\ ServerIdle

----------------------------------------------------------------------------
(* HijackHttpRequest up to the call of streamData. *)

\* return e from HijackHttpRequest with no deferred call registered yet
ReturnEarly(e) ==
    /\ ret' = e
    /\ pc' = "done"

\* a variant of ValidationError that checks Url before Method
ValidationErrorUrlFirst ==
    IF options.Url = "" THEN ErrMissingUrl
    ELSE IF options.Method = "" THEN ErrMissingMethod
    ELSE Nil

\* the checks of Method and Url, in the order the code makes them
ValidationError ==
    IF options.Method = "" THEN ErrMissingMethod
    ELSE IF options.Url = "" THEN ErrMissingUrl
    ELSE Nil

Validate ==
    /\ pc = "validate"
    /\ options' = [options EXCEPT !.Log = IF @ = Nil THEN "logIgnore" ELSE @]
    /\ IF ValidationError # Nil THEN ReturnEarly(ValidationError)
       ELSE pc' = "createRequest" /\ ret' = ret
    /\ UNCHANGED <<reqBuilt, conn, ccConn, doErr, defers, started>>
    /\ UNCHANGED <<inVars, outVars, chanVars, ioVars>>
    /\ UNCHANGED <<hsVars, brVars, sinkVars, opsVars, srvVars>>

\* the errors createHijackHttpRequest can return: json.Marshal is called only
\* when Data is set
CreateErrors == {Nil, ErrNewRequest} \cup
                (IF options.Data # Nil THEN {ErrMarshal} ELSE {})

\* http.Header.Del and http.Header.Set on a header map
HeaderDel(h, k) == [x \in DOMAIN h \ {k} |-> h[x]]
HeaderSet(h, k, v) == [x \in DOMAIN h \cup {k} |-> IF x = k THEN <<v>> ELSE h[x]]

\* for _, v := range values { req.Header.Set(k, v) }
RECURSIVE SetEach(_, _, _)
SetEach(h, k, values) ==
    IF values = <<>> THEN h
    ELSE SetEach(HeaderSet(h, k, Head(values)), k, Tail(values))

\* for k, values := range options.Header { Del(k); Set each value }, over
\* the keys not yet visited
RECURSIVE ApplyHeader(_, _, _)
ApplyHeader(h, caller, keys) ==
    IF keys = {} THEN h
    ELSE LET k == CHOOSE x \in keys : TRUE
         IN  ApplyHeader(SetEach(HeaderDel(h, k), k, caller[k]), caller,
                         keys \ {k})

\* the Header of the request: the caller's headers on the empty Header of
\* http.NewRequest, and then Content-Type
BuiltHeader(caller) ==
    HeaderSet(ApplyHeader(NoHeader, caller, DOMAIN caller),
              "Content-Type", "text/plain")

CreateRequest ==
    /\ pc = "createRequest"
    /\ \E e \in CreateErrors :
         IF e # Nil
         THEN ReturnEarly(e) /\ reqBuilt' = FALSE /\ reqHeader' = reqHeader
         ELSE /\ pc' = "parse"
              /\ ret' = ret
              /\ reqBuilt' = TRUE
              /\ reqHeader' = BuiltHeader(options.Header)
    /\ UNCHANGED <<conn, ccConn, doErr, defers, started>>
    /\ UNCHANGED <<optVars, inVars, outVars, chanVars, ioVars>>
    /\ UNCHANGED <<dialed, brVars, sinkVars, opsVars, srvVars>>

ParseUrl ==
    /\ pc = "parse"
    /\ \E e \in {Nil, ErrParse} :
         IF e # Nil THEN ReturnEarly(e) ELSE pc' = "dial" /\ ret' = ret
    /\ UNCHANGED <<reqBuilt, conn, ccConn, doErr, defers, started>>
    /\ UNCHANGED <<optVars, inVars, outVars, chanVars, ioVars>>
    /\ UNCHANGED <<hsVars, brVars, sinkVars, opsVars, srvVars>>

\* what neturl.Parse makes of each locator of the model: Scheme, Host (the
\* authority, port included) and Path, as lists of tokens; Port is the port
\* the authority carries, "" when it carries none
ParsedUrl(u) ==
    CASE u = "http://host/exec" ->
           [Scheme |-> "http", Host |-> <<"host">>, Port |-> "",
            Path |-> <<"/exec">>]
      [] u = "http://host:8080/exec" ->
           [Scheme |-> "http", Host |-> <<"host", ":", "8080">>, Port |-> "8080",
            Path |-> <<"/exec">>]
      [] u = "https://host/exec" ->
           [Scheme |-> "https", Host |-> <<"host">>, Port |-> "",
            Path |-> <<"/exec">>]
      [] u = "https://host:8443/exec" ->
           [Scheme |-> "https", Host |-> <<"host", ":", "8443">>, Port |-> "8443",
            Path |-> <<"/exec">>]
      [] u = "tcp://host/exec" ->
           [Scheme |-> "tcp", Host |-> <<"host">>, Port |-> "",
            Path |-> <<"/exec">>]
      [] u = "https://[::1]/exec" ->
           [Scheme |-> "https", Host |-> <<"[", ":", ":", "1", "]">>, Port |-> "",
            Path |-> <<"/exec">>]
      [] u = "unix:///var/run/x.sock" ->
           [Scheme |-> "unix", Host |-> <<>>, Port |-> "",
            Path |-> <<"/var/run/x.sock">>]

\* strings.Contains(address, ":")
ContainsColon(address) == \E i \in 1..Len(address) : address[i] = ":"

\* protocol and address as lines 63-75 compute them, and whether TLSDial or
\* net.Dial is called (line 80)
DialTarget(u) ==
    LET ep == ParsedUrl(u)
    IN  [protocol |-> IF ep.Scheme # "unix" THEN "tcp" ELSE ep.Scheme,
         address  |-> IF ep.Scheme # "unix"
                      THEN IF ~ContainsColon(ep.Host)
                           THEN IF ep.Scheme = "https"
                                THEN ep.Host \o <<":", "443">>
                                ELSE ep.Host \o <<":", "80">>
                           ELSE ep.Host
                      ELSE ep.Path,
         tls      |-> ep.Scheme = "https"]

Dial ==
    /\ pc = "dial"
    /\ dialed' = <<DialTarget(options.Url)>>
    /\ \E e \in {Nil, ErrDial} :
         IF e # Nil THEN ReturnEarly(e) /\ conn' = conn
         ELSE pc' = "newClientConn" /\ ret' = ret /\ conn' = "open"
    /\ UNCHANGED <<reqBuilt, ccConn, doErr, defers, started>>
    /\ UNCHANGED <<optVars, inVars, outVars, chanVars, ioVars>>
    /\ UNCHANGED <<reqHeader, brVars, sinkVars, opsVars, srvVars>>

NewClientConn ==
    /\ pc = "newClientConn"
    /\ ccConn' = TRUE
    /\ defers' = <<"clientconn.Close">> \o defers
    /\ pc' = "do"
    /\ UNCHANGED <<ret, reqBuilt, conn, doErr, started>>
    /\ UNCHANGED <<optVars, inVars, outVars, chanVars, ioVars>>
    /\ UNCHANGED <<hsVars, brVars, sinkVars, opsVars, srvVars>>

\* clientconn.Do(req): its results are discarded by the caller
Do ==
    /\ pc = "do"
    /\ \E e \in {Nil, ErrDo} : doErr' = e
    /\ pc' = "hijack"
    /\ UNCHANGED <<ret, reqBuilt, conn, ccConn, defers, started>>
    /\ UNCHANGED <<optVars, inVars, outVars, chanVars, ioVars>>
    /\ UNCHANGED <<hsVars, brVars, sinkVars, opsVars, srvVars>>

\* rwc, br := clientconn.Hijack(): the ClientConn gives the connection away
\* the channels an inbound unit can belong to: in multiplexed mode a unit is
\* a frame of the output channel (0) or of the error channel (1)
Channels == IF options.DockerTermProtocol THEN {0, 1} ELSE {0}

\* what br can hold when the connection is hijacked: the first k units the
\* peer sent after its response, which the HTTP layer has read ahead
Buffered ==
    UNION { { [i \in 1..k |-> [id |-> i, ch |-> f[i], cut |-> "none",
                                src |-> "br"]] : f \in [1..k -> Channels] }
            : k \in 0..MaxBuffered }

\* a variant of Hijack in which the ClientConn keeps the connection
HijackKeepsConn ==
    /\ pc = "hijack"
    /\ ccConn' = TRUE
    /\ defers' = <<"rwc.Close">> \o defers
    /\ \E b \in Buffered : brBuf' = b /\ connNext' = Len(b) + 1
    /\ pc' = "streamData"
    /\ UNCHANGED <<ret, reqBuilt, conn, doErr, started>>
    /\ UNCHANGED <<optVars, inVars, outVars, chanVars, ioVars>>
    /\ UNCHANGED <<hsVars, readLog, sinkVars, opsVars, srvVars>>

Hijack ==
    /\ pc = "hijack"
    /\ ccConn' = FALSE
    /\ defers' = <<"rwc.Close">> \o defers
    /\ \E b \in Buffered : brBuf' = b /\ connNext' = Len(b) + 1
    /\ pc' = "streamData"
    /\ UNCHANGED <<ret, reqBuilt, conn, doErr, started>>
    /\ UNCHANGED <<optVars, inVars, outVars, chanVars, ioVars>>
    /\ UNCHANGED <<hsVars, readLog, sinkVars, opsVars, srvVars>>

----------------------------------------------------------------------------
(* Channels. *)

\* a variant of CanSend for channels made with one slot less
CanSendSmaller(ch) == Len(ch.buf) < ErrsCap - 1 /\ ~ch.closed

\* a send completes when the buffer has room (a send on a closed channel
\* panics and completes nothing)
CanSend(ch) == Len(ch.buf) < ErrsCap /\ ~ch.closed
Send(ch, v) == [ch EXCEPT !.buf = Append(@, v)]

\* a receive completes when a value is buffered or the channel is closed; a
\* closed and empty channel yields the zero value, a nil error
CanRecv(ch) == Len(ch.buf) > 0 \/ ch.closed
RecvVal(ch) == IF Len(ch.buf) > 0 THEN Head(ch.buf) ELSE Nil
Recv(ch)    == [ch EXCEPT !.buf = IF Len(@) > 0 THEN Tail(@) ELSE @]
Close(ch)   == [ch EXCEPT !.closed = TRUE]

\* the record of a send and of a close made by goroutine g on channel c
OpSend(c, g) ==
    [chanOps EXCEPT ![c].sends = @ + 1, ![c].senders = @ \cup {g}]
OpClose(c, g) ==
    [chanOps EXCEPT ![c].closes = @ + 1, ![c].closers = @ \cup {g}]

----------------------------------------------------------------------------
(* streamData: the main goroutine. *)

\* lines 143-178: make the channels and start both goroutines
StreamDataStart ==
    /\ pc = "streamData"
    /\ errsIn' = NewChan
    /\ errsOut' = NewChan
    /\ exit' = NewChan
    /\ chanOps' = NoOps
    /\ inPc' = "copy"
    /\ outPc' = "begin"
    /\ started' = TRUE
    /\ pc' = "waitExit"
    /\ UNCHANGED <<ret, reqBuilt, conn, ccConn, doErr, defers>>
    /\ UNCHANGED <<inErr, received, outErr, cwErr, consumed>>
    /\ UNCHANGED <<optVars, ioVars>>
    /\ UNCHANGED <<hsVars, brVars, sinkVars, srvVars>>

\* a variant of WaitExit that does not wait for exit to be closed
WaitExitSkipped ==
    /\ pc = "waitExit"
    /\ pc' = "select"
    /\ UNCHANGED <<ret, reqBuilt, conn, ccConn, doErr, defers, started>>
    /\ UNCHANGED <<optVars, inVars, outVars, chanVars, ioVars>>
    /\ UNCHANGED <<hsVars, brVars, sinkVars, opsVars, srvVars>>

\* <-exit
WaitExit ==
    /\ pc = "waitExit"
    /\ exit.closed
    /\ pc' = "select"
    /\ UNCHANGED <<ret, reqBuilt, conn, ccConn, doErr, defers, started>>
    /\ UNCHANGED <<optVars, inVars, outVars, chanVars, ioVars>>
    /\ UNCHANGED <<hsVars, brVars, sinkVars, opsVars, srvVars>>

\* a variant of SelectReady for a select that has lost its errsOut case
SelectReadyErrsInOnly ==
    {c \in {"errsIn"} : CanRecv(errsIn)}

\* the cases of the select statement that can proceed; Go picks one of them
\* at random
SelectReady ==
    {c \in {"errsOut", "errsIn"} :
        CanRecv(IF c = "errsOut" THEN errsOut ELSE errsIn)}

\* select { case err := <-errsOut: return err; case err := <-errsIn: return err }
Select ==
    /\ pc = "select"
    /\ \E c \in SelectReady :
         IF c = "errsOut"
         THEN /\ ret' = RecvVal(errsOut)
              /\ errsOut' = Recv(errsOut)
              /\ errsIn' = errsIn
         ELSE /\ ret' = RecvVal(errsIn)
              /\ errsIn' = Recv(errsIn)
              /\ errsOut' = errsOut
    /\ pc' = "return"
    /\ UNCHANGED <<reqBuilt, conn, ccConn, doErr, defers, started, exit>>
    /\ UNCHANGED <<optVars, inVars, outVars, ioVars>>
    /\ UNCHANGED <<hsVars, brVars, sinkVars, opsVars, srvVars>>

\* the deferred rwc.Close() of HijackHttpRequest
DeferRwcClose ==
    /\ pc = "return"
    /\ defers # <<>>
    /\ Head(defers) = "rwc.Close"
    /\ conn' = "closed"
    /\ rwcLog' = Append(rwcLog, "close")
    /\ defers' = Tail(defers)
    /\ pc' = IF Tail(defers) = <<>> THEN "done" ELSE "return"
    /\ UNCHANGED <<ret, reqBuilt, ccConn, doErr, started, debugLog>>
    /\ UNCHANGED <<optVars, inVars, outVars, chanVars>>
    /\ UNCHANGED <<hsVars, brVars, sinkVars, opsVars, srvVars>>

\* the deferred clientconn.Close(): it closes the connection only when the
\* ClientConn still holds it, that is when it was not hijacked
DeferClientConnClose ==
    /\ pc = "return"
    /\ defers # <<>>
    /\ Head(defers) = "clientconn.Close"
    /\ IF ccConn
       THEN conn' = "closed" /\ rwcLog' = Append(rwcLog, "close")
       ELSE conn' = conn /\ rwcLog' = rwcLog
    /\ ccConn' = FALSE
    /\ defers' = Tail(defers)
    /\ pc' = IF Tail(defers) = <<>> THEN "done" ELSE "return"
    /\ UNCHANGED <<ret, reqBuilt, doErr, started, debugLog>>
    /\ UNCHANGED <<optVars, inVars, outVars, chanVars>>
    /\ UNCHANGED <<hsVars, brVars, sinkVars, opsVars, srvVars>>

----------------------------------------------------------------------------
(* streamData: the inbound goroutine, stream -> local sinks. *)

\* the units that can arrive on the connection as unit number id: a chunk
\* of bytes in raw mode; in multiplexed mode a frame of either channel, whole
\* or cut short by the end of the stream inside its header or its payload
ConnUnits(id) ==
    {[id |-> id, ch |-> c, cut |-> t, src |-> "conn"] :
        c \in Channels,
        t \in IF options.DockerTermProtocol
              THEN {"none", "header", "payload"} ELSE {"none"}}

\* a variant of BrReads that reads the connection itself and not br
RwcReads ==
    {[unit |-> u, buf |-> brBuf, next |-> connNext + 1] : u \in ConnUnits(connNext)}

\* a read of br: what it holds buffered comes first, then what arrives on
\* the connection
BrReads ==
    IF brBuf # <<>>
    THEN {[unit |-> Head(brBuf), buf |-> Tail(brBuf), next |-> connNext]}
    ELSE {[unit |-> u, buf |-> brBuf, next |-> connNext + 1] :
             u \in ConnUnits(connNext)}

\* the sink the inbound copy writes a unit of channel ch to: stdout is
\* options.OutputStream and stderr options.ErrorStream, and io.Copy writes
\* everything to stdout
SinkOf(ch) == IF ch = 1 /\ options.DockerTermProtocol
              THEN options.ErrorStream ELSE options.OutputStream

\* the outcomes of a Write on a sink: a nil sink was replaced by
\* ioutil.Discard, whose Write cannot fail
SinkOutcomes(sink) == IF sink = Nil THEN {Nil} ELSE {Nil, ErrSinkWrite}

\* the write of unit u: on success the sink it goes to, unless nil, holds it
Deliver(u, e) ==
    /\ stdout' = IF e = Nil /\ SinkOf(u.ch) = "stdout"
                 THEN Append(stdout, u.id) ELSE stdout
    /\ stderr' = IF e = Nil /\ SinkOf(u.ch) = "stderr"
                 THEN Append(stderr, u.id) ELSE stderr

\* io.Copy(stdout, br) moves one more chunk from br to stdout
InboundRead ==
    /\ inPc = "copy"
    /\ ~options.DockerTermProtocol
    /\ received < MaxInbound
    /\ received' = received + 1
    /\ \E r \in BrReads :
         /\ readLog' = Append(readLog, r.unit)
         /\ brBuf' = r.buf
         /\ connNext' = r.next
         /\ \E e \in SinkOutcomes(SinkOf(r.unit.ch)) :
              /\ Deliver(r.unit, e)
              /\ IF e = Nil THEN inPc' = inPc /\ inErr' = inErr
                 ELSE inPc' = "send" /\ inErr' = e
    /\ UNCHANGED <<optVars, mainVars, outVars, chanVars, ioVars>>
    /\ UNCHANGED <<hsVars, opsVars, srvVars>>

\* the error of the demultiplexing loop on a frame: a framing error when
\* the stream ends inside the header or before the declared payload
FrameError(u) == IF u.cut # "none" THEN ErrFraming ELSE Nil

\* docker.StdCopy(stdout, stderr, br, log) reads one more frame from br and
\* writes its payload to the sink of its channel
InboundStdCopy ==
    /\ inPc = "copy"
    /\ options.DockerTermProtocol
    /\ received < MaxInbound
    /\ received' = received + 1
    /\ \E r \in BrReads :
         /\ readLog' = Append(readLog, r.unit)
         /\ brBuf' = r.buf
         /\ connNext' = r.next
         /\ IF FrameError(r.unit) # Nil
            THEN /\ inPc' = "send"
                 /\ inErr' = FrameError(r.unit)
                 /\ UNCHANGED sinkVars
            ELSE \E e \in SinkOutcomes(SinkOf(r.unit.ch)) :
                   /\ Deliver(r.unit, e)
                   /\ IF e = Nil THEN inPc' = inPc /\ inErr' = inErr
                      ELSE inPc' = "send" /\ inErr' = e
    /\ UNCHANGED <<optVars, mainVars, outVars, chanVars, ioVars>>
    /\ UNCHANGED <<hsVars, opsVars, srvVars>>

\* the copy returns once br is drained: nil at the end of the stream (in
\* multiplexed mode, at a frame boundary), or the error of a failed read
InboundCopyReturns ==
    /\ inPc = "copy"
    /\ brBuf = <<>>
    /\ \E e \in {Nil, ErrInbound} : inErr' = e
    /\ inPc' = "send"
    /\ UNCHANGED received
    /\ UNCHANGED <<optVars, mainVars, outVars, chanVars, ioVars>>
    /\ UNCHANGED <<hsVars, brVars, sinkVars, opsVars, srvVars>>

\* errsOut <- err
InboundSend ==
    /\ inPc = "send"
    /\ CanSend(errsOut)
    /\ errsOut' = Send(errsOut, inErr)
    /\ chanOps' = OpSend("errsOut", "inbound")
    /\ inPc' = "closeErrsOut"
    /\ UNCHANGED <<inErr, received, errsIn, exit>>
    /\ UNCHANGED <<optVars, mainVars, outVars, ioVars>>
    /\ UNCHANGED <<hsVars, brVars, sinkVars, srvVars>>

\* a variant of InboundCloseErrsOut for the deferred closes registered in
\* the other order: close(exit) runs where close(errsOut) should
InboundCloseExitInstead ==
    /\ inPc = "closeErrsOut"
    /\ exit' = Close(exit)
    /\ chanOps' = OpClose("exit", "inbound")
    /\ inPc' = "closeExit"
    /\ UNCHANGED <<inErr, received, errsIn, errsOut>>
    /\ UNCHANGED <<optVars, mainVars, outVars, ioVars>>
    /\ UNCHANGED <<hsVars, brVars, sinkVars, srvVars>>

\* defer close(errsOut): registered last, so it runs first
InboundCloseErrsOut ==
    /\ inPc = "closeErrsOut"
    /\ errsOut' = Close(errsOut)
    /\ chanOps' = OpClose("errsOut", "inbound")
    /\ inPc' = "closeExit"
    /\ UNCHANGED <<inErr, received, errsIn, exit>>
    /\ UNCHANGED <<optVars, mainVars, outVars, ioVars>>
    /\ UNCHANGED <<hsVars, brVars, sinkVars, srvVars>>

\* defer close(exit)
InboundCloseExit ==
    /\ inPc = "closeExit"
    /\ exit' = Close(exit)
    /\ chanOps' = OpClose("exit", "inbound")
    /\ inPc' = "done"
    /\ UNCHANGED <<inErr, received, errsIn, errsOut>>
    /\ UNCHANGED <<optVars, mainVars, outVars, ioVars>>
    /\ UNCHANGED <<hsVars, brVars, sinkVars, srvVars>>

----------------------------------------------------------------------------
(* streamData: the outbound goroutine, local input -> stream. *)

\* a variant of OutboundBegin that half-closes the stream before the copy
OutboundBeginCloseWriteFirst ==
    /\ outPc = "begin"
    /\ rwcLog' = Append(rwcLog, "closeWrite")
    /\ outPc' = IF options.InputStream.nil THEN "send" ELSE "copy"
    /\ UNCHANGED <<outErr, cwErr, consumed, debugLog>>
    /\ UNCHANGED <<optVars, mainVars, inVars, chanVars>>
    /\ UNCHANGED <<hsVars, brVars, sinkVars, opsVars, srvVars>>

\* a variant of OutboundBegin with the half-close inside the branch for a
\* non-nil input, so that a nil input goes straight to the send
OutboundBeginNilSkipsCloseWrite ==
    /\ outPc = "begin"
    /\ outPc' = IF options.InputStream.nil THEN "send" ELSE "copy"
    /\ UNCHANGED <<outErr, cwErr, consumed>>
    /\ UNCHANGED <<optVars, mainVars, inVars, chanVars, ioVars>>
    /\ UNCHANGED <<hsVars, brVars, sinkVars, opsVars, srvVars>>

\* in := options.InputStream; if in != nil { io.Copy } is skipped for nil
OutboundBegin ==
    /\ outPc = "begin"
    /\ outPc' = IF options.InputStream.nil THEN "closeWrite" ELSE "copy"
    /\ UNCHANGED <<outErr, cwErr, consumed>>
    /\ UNCHANGED <<optVars, mainVars, inVars, chanVars, ioVars>>
    /\ UNCHANGED <<hsVars, brVars, sinkVars, opsVars, srvVars>>

\* the outcomes of a Write on rwc: it fails once the connection is closed
\* and may fail before
WriteOutcomes == IF conn = "open" THEN {Nil, ErrWrite} ELSE {ErrWrite}

\* io.Copy(rwc, in) reads one chunk of input and writes it to rwc; a failed
\* write ends the copy with the chunks behind it left unread
OutboundCopyChunk ==
    /\ outPc = "copy"
    /\ consumed < options.InputStream.len
    /\ consumed' = consumed + 1
    /\ rwcLog' = Append(rwcLog, "write")
    /\ \E e \in WriteOutcomes :
         IF e = Nil THEN outPc' = outPc /\ outErr' = outErr
         ELSE outPc' = "closeWrite" /\ outErr' = e
    /\ UNCHANGED <<cwErr, debugLog>>
    /\ UNCHANGED <<optVars, mainVars, inVars, chanVars>>
    /\ UNCHANGED <<hsVars, brVars, sinkVars, opsVars, srvVars>>

\* io.Copy ends on a failed Read of the input
OutboundInputFails ==
    /\ outPc = "copy"
    /\ outErr' = ErrInputRead
    /\ outPc' = "closeWrite"
    /\ UNCHANGED <<cwErr, consumed>>
    /\ UNCHANGED <<optVars, mainVars, inVars, chanVars, ioVars>>
    /\ UNCHANGED <<hsVars, brVars, sinkVars, opsVars, srvVars>>

\* a variant of OutboundInputEOF for a copy that can stop, without error,
\* before the end of the input
OutboundInputEOFEarly ==
    /\ outPc = "copy"
    /\ outErr' = Nil
    /\ outPc' = "closeWrite"
    /\ UNCHANGED <<cwErr, consumed>>
    /\ UNCHANGED <<optVars, mainVars, inVars, chanVars, ioVars>>
    /\ UNCHANGED <<hsVars, brVars, sinkVars, opsVars, srvVars>>

\* io.Copy ends without error when the input reports end of input
OutboundInputEOF ==
    /\ outPc = "copy"
    /\ consumed = options.InputStream.len
    /\ outErr' = Nil
    /\ outPc' = "closeWrite"
    /\ UNCHANGED <<cwErr, consumed>>
    /\ UNCHANGED <<optVars, mainVars, inVars, chanVars, ioVars>>
    /\ UNCHANGED <<hsVars, brVars, sinkVars, opsVars, srvVars>>

\* the outcomes of CloseWrite on rwc
CloseWriteOutcomes == IF conn = "open" THEN {Nil, ErrCloseWrite} ELSE {ErrCloseWrite}

\* a variant of ErrAfterCloseWrite for `err = ...CloseWrite()`, which assigns
\* the outer err
ErrAfterCloseWriteAssigned(e) == e

\* the value of the outer err after `if err := ...CloseWrite(); err != nil`:
\* the result e is bound to a new err that shadows the outer one
ErrAfterCloseWrite(e) == outErr

\* if err := rwc.(closeWriter).CloseWrite(); err != nil { Debugf(...) }
OutboundCloseWrite ==
    /\ outPc = "closeWrite"
    /\ rwcLog' = Append(rwcLog, "closeWrite")
    /\ \E e \in CloseWriteOutcomes :
         /\ cwErr' = e
         /\ outErr' = ErrAfterCloseWrite(e)
         /\ debugLog' = IF e # Nil /\ options.Log = "logger"
                        THEN Append(debugLog, e) ELSE debugLog
    /\ outPc' = "send"
    /\ UNCHANGED consumed
    /\ UNCHANGED <<optVars, mainVars, inVars, chanVars>>
    /\ UNCHANGED <<hsVars, brVars, sinkVars, opsVars, srvVars>>

\* errsIn <- err
OutboundSend ==
    /\ outPc = "send"
    /\ CanSend(errsIn)
    /\ errsIn' = Send(errsIn, outErr)
    /\ chanOps' = OpSend("errsIn", "outbound")
    /\ outPc' = "closeErrsIn"
    /\ UNCHANGED <<outErr, cwErr, consumed, errsOut, exit>>
    /\ UNCHANGED <<optVars, mainVars, inVars, ioVars>>
    /\ UNCHANGED <<hsVars, brVars, sinkVars, srvVars>>

\* defer close(errsIn)
OutboundCloseErrsIn ==
    /\ outPc = "closeErrsIn"
    /\ errsIn' = Close(errsIn)
    /\ chanOps' = OpClose("errsIn", "outbound")
    /\ outPc' = "done"
    /\ UNCHANGED <<outErr, cwErr, consumed, errsOut, exit>>
    /\ UNCHANGED <<optVars, mainVars, inVars, ioVars>>
    /\ UNCHANGED <<hsVars, brVars, sinkVars, srvVars>>

----------------------------------------------------------------------------
(* The server side: HijackServer and CloseStreams, as a handler uses them. *)

clientVars == <<optVars, mainVars, inVars, outVars, chanVars, ioVars,
                hsVars, brVars, sinkVars, opsVars>>

\* the streams a handler can pass to CloseStreams: the hijacked connection
\* (a net.Conn with CloseWrite and Close), a value with CloseWrite alone, one
\* with Close alone, and one with neither
Streams == {"conn", "halfCloser", "closer", "buffer"}
IsCloseWriter(o) == o \in {"conn", "halfCloser"}
IsCloser(o)      == o \in {"conn", "closer"}

\* the argument lists of CloseStreams
StreamLists == UNION {[1..n -> Streams] : n \in 0..MaxStreams}

\* a variant of ServerHijack that writes before it checks err
ServerHijackWritesFirst ==
    /\ srvPc = "hijack"
    /\ \E e \in {Nil, ErrHijack} :
         IF e # Nil
         THEN /\ srvRet' = [in |-> Nil, out |-> Nil, err |-> e]
              /\ srvLog' = srvLog \o <<[stream |-> "w", op |-> "hijack"],
                                       [stream |-> "conn", op |-> "write0"]>>
              /\ srvPc' = "done"
         ELSE /\ srvRet' = srvRet
              /\ srvLog' = Append(srvLog, [stream |-> "w", op |-> "hijack"])
              /\ srvPc' = "flush"
    /\ UNCHANGED <<srvArgs, srvIdx, clientVars>>

\* conn, _, err := w.(http.Hijacker).Hijack(); if err != nil { return ... }
ServerHijack ==
    /\ srvPc = "hijack"
    /\ srvLog' = Append(srvLog, [stream |-> "w", op |-> "hijack"])
    /\ \E e \in {Nil, ErrHijack} :
         IF e # Nil
         THEN /\ srvRet' = [in |-> Nil, out |-> Nil, err |-> e]
              /\ srvPc' = "done"
         ELSE /\ srvRet' = srvRet
              /\ srvPc' = "flush"
    /\ UNCHANGED <<srvArgs, srvIdx, clientVars>>

\* conn.Write([]byte{})
ServerFlush ==
    /\ srvPc = "flush"
    /\ srvLog' = Append(srvLog, [stream |-> "conn", op |-> "write0"])
    /\ srvPc' = "return"
    /\ UNCHANGED <<srvArgs, srvIdx, srvRet, clientVars>>

\* return conn, conn, nil; the handler then runs and ends in CloseStreams
ServerReturn ==
    /\ srvPc = "return"
    /\ srvRet' = [in |-> "conn", out |-> "conn", err |-> Nil]
    /\ srvPc' = "closeStreams"
    /\ UNCHANGED <<srvArgs, srvIdx, srvLog, clientVars>>

\* a variant of StreamOp that tries io.Closer before closeWriter
StreamOpCloserFirst(o) ==
    IF IsCloser(o) THEN "close"
    ELSE IF IsCloseWriter(o) THEN "closeWrite"
    ELSE "none"

\* what CloseStreams calls on a stream, by the type assertions of its loop
StreamOp(o) ==
    IF IsCloseWriter(o) THEN "closeWrite"
    ELSE IF IsCloser(o) THEN "close"
    ELSE "none"

\* one pass of the loop of CloseStreams
CloseStreamsStep ==
    /\ srvPc = "closeStreams"
    /\ srvIdx < Len(srvArgs)
    /\ srvIdx' = srvIdx + 1
    /\ LET o == srvArgs[srvIdx + 1]
       IN  srvLog' = IF StreamOp(o) # "none"
                     THEN Append(srvLog, [stream |-> o, op |-> StreamOp(o)])
                     ELSE srvLog
    /\ UNCHANGED <<srvPc, srvArgs, srvRet, clientVars>>

\* the loop of CloseStreams ends
CloseStreamsReturn ==
    /\ srvPc = "closeStreams"
    /\ srvIdx = Len(srvArgs)
    /\ srvPc' = "done"
    /\ UNCHANGED <<srvArgs, srvIdx, srvRet, srvLog, clientVars>>

\* a handler about to call HijackServer, with the streams it will close
ServerInit ==
    /\ options = Handshake(DefaultUrl, NoHeader, Nil)
    /\ ClientStart
    /\ srvPc = "hijack"
    /\ srvArgs \in StreamLists
    /\ srvIdx = 0
    /\ srvRet = [in |-> Nil, out |-> Nil, err |-> Unset]
    /\ srvLog = <<>>

ServerNext ==
    \/ ServerHijack
    \/ ServerFlush
    \/ ServerReturn
    \/ CloseStreamsStep
    \/ CloseStreamsReturn

ServerSpec == ServerInit /\ [][ServerNext]_vars

----------------------------------------------------------------------------
Next ==
    \/ Validate
    \/ CreateRequest
    \/ ParseUrl
    \/ Dial
    \/ NewClientConn
    \/ Do
    \/ Hijack
    \/ StreamDataStart
    \/ WaitExit
    \/ Select
    \/ DeferRwcClose
    \/ DeferClientConnClose
    \/ InboundRead
    \/ InboundStdCopy
    \/ InboundCopyReturns
    \/ InboundSend
    \/ InboundCloseErrsOut
    \/ InboundCloseExit
    \/ OutboundBegin
    \/ OutboundCopyChunk
    \/ OutboundInputFails
    \/ OutboundInputEOF
    \/ OutboundCloseWrite
    \/ OutboundSend
    \/ OutboundCloseErrsIn

Spec == Init /\ [][Next]_vars

\* The Go scheduler runs every goroutine that can run: the main goroutine
\* and the inbound goroutine keep taking their steps once the inbound copy
\* has returned.  Nothing is assumed of the copies themselves, which wait on
\* the peer and on the local input, nor of the outbound goroutine.
FairSpec ==
    /\ Spec
    /\ WF_vars(InboundSend)
    /\ WF_vars(InboundCloseErrsOut)
    /\ WF_vars(InboundCloseExit)
    /\ WF_vars(WaitExit)
    /\ WF_vars(Select)

----------------------------------------------------------------------------
(* State descriptions used by the properties. *)

\* streamData has returned to HijackHttpRequest
StreamDataReturned == started /\ pc \in {"return", "done"}

\* the inbound copy (io.Copy or StdCopy) has returned
InboundTerminated == inPc \in {"send", "closeErrsOut", "closeExit", "done"}

\* the outbound goroutine is past its call of CloseWrite
CloseWriteAttempted == outPc \in {"send", "closeErrsIn", "done"}

\* chunks of the local input that io.Copy has not read
UnreadInput == IF options.InputStream.nil THEN 0
               ELSE options.InputStream.len - consumed

\* the calls logged on rwc
Calls == {rwcLog[i] : i \in 1..Len(rwcLog)}

----------------------------------------------------------------------------
(* C1: streamData returns only after the inbound goroutine has terminated. *)
(* While the inbound copy is still reading, streamData has not returned,   *)
(* whatever the outbound goroutine has done; once it has returned, the     *)
(* inbound goroutine is done.                                              *)
ReturnsOnlyAfterInbound ==
    /\ (started /\ inPc = "copy") => ~StreamDataReturned
    /\ StreamDataReturned => inPc = "done"

\* the outbound goroutine has delivered its result and finished while the
\* inbound copy is still reading, and streamData is waiting
OutboundDoneInboundReading ==
    /\ outPc = "done"
    /\ errsIn.buf # <<>>
    /\ inPc = "copy"
    /\ received > 0
    /\ pc = "waitExit"

(* C2: whenever the inbound goroutine ends with an error E, streamData     *)
(* returns exactly E.                                                      *)
InboundErrorAlwaysReturned ==
    (StreamDataReturned /\ inErr # Nil) => ret = inErr

(* C3: when streamData returns with the inbound copy ended without error   *)
(* and the outbound goroutine already terminated with an error E, a        *)
(* failed write of input to the stream, it returns E.                      *)
OutboundErrorReturnedWhenInboundClean ==
    [][(pc = "select" /\ pc' = "return" /\ inErr = Nil
          /\ outPc = "done" /\ outErr = ErrWrite) => ret' = outErr]_vars

(* C4: streamData does not return before both goroutines have terminated,  *)
(* and the stream is never closed while the outbound goroutine is still    *)
(* copying or has not yet attempted its half-close.                        *)
StreamClosedOnlyAfterBothDone ==
    /\ StreamDataReturned => (inPc = "done" /\ outPc = "done")
    /\ "close" \in Calls => CloseWriteAttempted

(* C5: once the inbound copy has returned, streamData eventually returns,  *)
(* with a result that is set and never changes afterwards, even if the     *)
(* outbound goroutine never terminates.                                    *)
PumpReturnsOnce ==
    /\ InboundTerminated ~> (StreamDataReturned /\ ret # Unset)
    /\ [][StreamDataReturned => ret' = ret]_vars

\* streamData has returned while the outbound copy still has input to read
ReturnedWhileOutboundCopies ==
    /\ StreamDataReturned
    /\ ret # Unset
    /\ outPc = "copy"
    /\ UnreadInput > 0

(* C6: no write is issued on the stream after the half-close was           *)
(* attempted: every "write" precedes every "closeWrite" in the log.        *)
NoWriteAfterCloseWrite ==
    \A i, j \in 1..Len(rwcLog) :
        (i < j /\ rwcLog[i] = "closeWrite") => rwcLog[j] # "write"

\* the outbound goroutine wrote all its input and then half-closed
WritesThenCloseWrite ==
    /\ options.InputStream.len = MaxInput
    /\ consumed = MaxInput
    /\ CloseWriteAttempted
    /\ \E j \in 2..Len(rwcLog) :
         rwcLog[j] = "closeWrite" /\ rwcLog[j - 1] = "write"

(* C7, as claimed: the half-close is attempted only after the local input  *)
(* has been fully drained, on every outbound path on which the input       *)
(* could still be read, the path where a write to the stream fails         *)
(* included.                                                               *)
CloseWriteOnlyAfterInputDrained ==
    (CloseWriteAttempted /\ outErr # ErrInputRead) => UnreadInput = 0

(* C7, as amended: the half-close is attempted only after the input copy   *)
(* has returned.  When the copy returned without error no unread input     *)
(* remains; unread input remains at the half-close only when the copy      *)
(* stopped on a failed write to the stream or a failed read of the input.  *)
CloseWriteOnlyAfterCopyReturned ==
    /\ "closeWrite" \in Calls => CloseWriteAttempted
    /\ CloseWriteAttempted =>
          /\ outErr = Nil => UnreadInput = 0
          /\ UnreadInput > 0 => outErr \in {ErrWrite, ErrInputRead}

\* a write failed on the open stream with input left unread, and the
\* half-close was attempted all the same
CloseWriteAfterFailedWrite ==
    /\ CloseWriteAttempted
    /\ "closeWrite" \in Calls
    /\ outErr = ErrWrite
    /\ UnreadInput > 0
    /\ ~StreamDataReturned

(* C8: a failed half-close never changes the session result.  CloseWrite   *)
(* leaves the outbound err as the copy left it, that err is what the       *)
(* outbound goroutine delivers, the failure reaches only Debugf, and a     *)
(* session whose two copies succeeded returns success.                     *)
CloseWriteFailureNotEscalated ==
    /\ [][(outPc = "closeWrite" /\ outPc' # "closeWrite") => outErr' = outErr]_vars
    /\ [](/\ errsIn.buf # <<>> => Head(errsIn.buf) = outErr
          /\ outErr # ErrCloseWrite
          /\ ret # ErrCloseWrite
          /\ CloseWriteAttempted =>
                debugLog = IF cwErr # Nil /\ options.Log = "logger"
                           THEN <<cwErr>> ELSE <<>>
          /\ (StreamDataReturned /\ inErr = Nil /\ outErr = Nil) => ret = Nil)

\* both copies succeeded, the half-close failed before streamData chose the
\* outbound result, and the session returned success
HalfCloseFailedSessionSucceeded ==
    /\ StreamDataReturned
    /\ inErr = Nil
    /\ outErr = Nil
    /\ consumed = MaxInput
    /\ cwErr = ErrCloseWrite
    /\ debugLog = <<ErrCloseWrite>>
    /\ outPc = "done"
    /\ errsIn.buf = <<>>
    /\ errsOut.buf # <<>>
    /\ ret = Nil

(* C9: if clientconn.Do fails, HijackHttpRequest returns that failure and  *)
(* neither pump goroutine is ever started.                                 *)
DoFailureReturnedBeforePump ==
    doErr = ErrDo => (~started /\ (pc = "done" => ret = ErrDo))

(* C10: an empty Method or Url makes HijackHttpRequest return              *)
(* ErrMissingMethod or ErrMissingUrl (Method first) before a request is    *)
(* built, a connection dialed, Do called or a pump goroutine started.      *)
ValidationFirst ==
    /\ (options.Method = "" /\ pc # "validate") =>
          (pc = "done" /\ ret = ErrMissingMethod)
    /\ (options.Method # "" /\ options.Url = "" /\ pc # "validate") =>
          (pc = "done" /\ ret = ErrMissingUrl)
    /\ (options.Method = "" \/ options.Url = "") =>
          (~reqBuilt /\ conn = "none" /\ doErr = Unset /\ ~started
             /\ rwcLog = <<>>)

\* both are empty and the call has returned the error for Method
BothEmptyMethodReported ==
    /\ options.Method = ""
    /\ options.Url = ""
    /\ pc = "done"
    /\ ret = ErrMissingMethod

\* the number of calls of kind c made on the connection so far
CountCalls(c) == Cardinality({i \in 1..Len(rwcLog) : rwcLog[i] = c})

(* C11: on every exit path of HijackHttpRequest reached after the dial     *)
(* succeeded, the connection has been closed exactly once when the         *)
(* function returns; it is never closed twice.                             *)
ConnClosedExactlyOnce ==
    /\ CountCalls("close") <= 1
    /\ (pc = "done" /\ conn # "none") =>
          (conn = "closed" /\ CountCalls("close") = 1 /\ defers = <<>>)

\* the send failed, the connection was hijacked all the same, the pump ran
\* and the call has returned with the connection closed
ReturnedAfterSendFailure ==
    /\ pc = "done"
    /\ doErr = ErrDo
    /\ started
    /\ conn = "closed"

(* C12: the dial target is protocol unix and the path for scheme unix; for *)
(* any other scheme protocol tcp and the authority, with :443 (https) or   *)
(* :80 (otherwise) appended when the authority has no port; TLS is used if *)
(* and only if the scheme is https.                                        *)
DialTargetAsClaimed ==
    dialed # <<>> =>
       LET ep == ParsedUrl(options.Url)
           t  == dialed[1]
       IN  /\ t.tls = (ep.Scheme = "https")
           /\ IF ep.Scheme = "unix"
              THEN t.protocol = "unix" /\ t.address = ep.Path
              ELSE /\ t.protocol = "tcp"
                   /\ t.address =
                        IF ep.Port # "" THEN ep.Host
                        ELSE IF ep.Scheme = "https"
                             THEN ep.Host \o <<":", "443">>
                             ELSE ep.Host \o <<":", "80">>

(* C13: for each key of the caller's headers that has a value, the request *)
(* built by createHijackHttpRequest carries the last of the caller's       *)
(* values for that key, as a single value, Content-Type included.          *)
CallerHeadersOverride ==
    reqBuilt =>
       \A k \in DOMAIN options.Header :
          options.Header[k] # <<>> =>
             /\ k \in DOMAIN reqHeader
             /\ reqHeader[k] = <<options.Header[k][Len(options.Header[k])]>>

\* the ids of a list of units
Ids(units) == [i \in 1..Len(units) |-> units[i].id]

\* the units read so far whose write was made and did not fail: all of
\* them, but for the last one when the copy ended on that unit
Delivered ==
    IF inErr \in {ErrSinkWrite, ErrFraming}
    THEN SubSeq(readLog, 1, Len(readLog) - 1)
    ELSE readLog

\* the units of channel c among those delivered
OfChannel(c) == LET Is(u) == u.ch = c IN Ids(SelectSeq(Delivered, Is))

(* C14: the inbound goroutine reads br, so what the HTTP layer had         *)
(* buffered comes first and everything in the order sent; in raw mode all  *)
(* of it goes to the output sink and nothing to the error sink, in         *)
(* multiplexed mode each frame goes to the sink of its channel; a nil sink *)
(* receives nothing and never makes the copy fail.                         *)
InboundRouting ==
    /\ \A i \in 1..Len(readLog) : readLog[i].id = i
    /\ IF options.DockerTermProtocol
       THEN /\ stdout = IF options.OutputStream = Nil THEN <<>>
                        ELSE OfChannel(0)
            /\ stderr = IF options.ErrorStream = Nil THEN <<>>
                        ELSE OfChannel(1)
       ELSE /\ stdout = IF options.OutputStream = Nil THEN <<>>
                        ELSE Ids(Delivered)
            /\ stderr = <<>>
    /\ inErr = ErrSinkWrite =>
          LET u == readLog[Len(readLog)]
          IN  IF options.DockerTermProtocol /\ u.ch = 1
              THEN options.ErrorStream # Nil
              ELSE options.OutputStream # Nil

\* a multiplexed session: a buffered frame and a frame from the connection
\* have been read, one went to each sink, and the copy ended without error
BufferedThenConnRouted ==
    /\ options.DockerTermProtocol
    /\ Len(readLog) = 2
    /\ readLog[1].src = "br"
    /\ readLog[2].src = "conn"
    /\ stdout # <<>>
    /\ stderr # <<>>
    /\ inPc = "done"
    /\ inErr = Nil

\* the stream ended inside the header or the payload of the last frame read
EndedInsideFrame ==
    /\ options.DockerTermProtocol
    /\ readLog # <<>>
    /\ readLog[Len(readLog)].cut # "none"

(* C15: in multiplexed mode, when the stream ends inside a frame header or *)
(* before the declared payload has been read, the demultiplexing loop      *)
(* fails with a framing error and streamData returns that error; the       *)
(* frame's payload is not delivered.                                       *)
FramingErrorReturned ==
    EndedInsideFrame =>
       /\ inErr = ErrFraming
       /\ readLog[Len(readLog)].id \notin
             {stdout[i] : i \in 1..Len(stdout)} \cup
             {stderr[i] : i \in 1..Len(stderr)}
       /\ StreamDataReturned => ret = ErrFraming

\* HijackServer has returned
ServerReturned == srvPc \in {"closeStreams", "done"} /\ srvRet.err # Unset

(* C16: HijackServer hijacks, then writes zero bytes on the hijacked       *)
(* connection, then returns that connection as both handles with a nil     *)
(* error; when the hijack fails it returns the error with no streams and   *)
(* writes nothing.                                                         *)
HijackServerOrder ==
    /\ srvLog # <<>> => srvLog[1] = [stream |-> "w", op |-> "hijack"]
    /\ \A i \in 1..Len(srvLog) : srvLog[i].op = "write0" =>
          (i = 2 /\ srvLog[i].stream = "conn")
    /\ srvPc = "return" => Len(srvLog) = 2 /\ srvLog[2].op = "write0"
    /\ ServerReturned =>
          IF srvRet.err = Nil
          THEN /\ srvRet.in = "conn"
               /\ srvRet.out = "conn"
               /\ Len(srvLog) >= 2
               /\ srvLog[2] = [stream |-> "conn", op |-> "write0"]
          ELSE /\ srvRet = [in |-> Nil, out |-> Nil, err |-> ErrHijack]
               /\ srvLog = <<[stream |-> "w", op |-> "hijack"]>>

\* both outcomes of HijackServer are distinguished: this is the successful one
HijackServerSucceeded ==
    /\ ServerReturned
    /\ srvRet = [in |-> "conn", out |-> "conn", err |-> Nil]
    /\ Len(srvLog) = 2

\* the operations CloseStreams has applied so far, in the order made
CloseOps == LET IsCloseOp(c) == c.op \in {"closeWrite", "close"}
            IN  SelectSeq(srvLog, IsCloseOp)

\* the streams among the first n arguments that support half-close or close
RECURSIVE Closable(_)
Closable(args) ==
    IF args = <<>> THEN <<>>
    ELSE IF IsCloseWriter(Head(args)) \/ IsCloser(Head(args))
         THEN <<Head(args)>> \o Closable(Tail(args))
         ELSE Closable(Tail(args))

(* C20: CloseStreams applies at most one operation to each stream, in      *)
(* argument order: CloseWrite when the stream supports half-close,         *)
(* otherwise Close when it supports close, otherwise nothing; a stream     *)
(* that supports both is never fully closed, and the same connection       *)
(* passed twice is half-closed twice.                                      *)
CloseStreamsOneOpEach ==
    LET visited == Closable(SubSeq(srvArgs, 1, srvIdx))
    IN  /\ Len(CloseOps) = Len(visited)
        /\ \A i \in 1..Len(CloseOps) :
              /\ CloseOps[i].stream = visited[i]
              /\ CloseOps[i].op = IF IsCloseWriter(visited[i])
                                  THEN "closeWrite" ELSE "close"
        /\ [stream |-> "conn", op |-> "close"] \notin
              {srvLog[i] : i \in 1..Len(srvLog)}
        /\ (srvPc = "done" /\ srvRet.err = Nil) => srvIdx = Len(srvArgs)
        /\ (srvPc = "done" /\ srvRet.err = Nil /\ srvArgs = <<"conn", "conn">>) =>
              CloseOps = <<[stream |-> "conn", op |-> "closeWrite"],
                           [stream |-> "conn", op |-> "closeWrite"]>>

\* the handler of the README: CloseStreams(inStream, outStream) with the
\* connection as both has returned
SameConnHalfClosedTwice ==
    /\ srvPc = "done"
    /\ srvArgs = <<"conn", "conn">>
    /\ Len(CloseOps) = 2

(* C17: neither goroutine can block on sending its result: whenever one is *)
(* at its send, before or after streamData has returned, the send can      *)
(* complete without a receiver, and no channel is sent to more often than  *)
(* its buffer has slots.                                                   *)
ResultSendNeverBlocks ==
    /\ inPc = "send" => CanSend(errsOut)
    /\ outPc = "send" => CanSend(errsIn)
    /\ chanOps["errsOut"].sends <= ErrsCap
    /\ chanOps["errsIn"].sends <= ErrsCap

\* HijackHttpRequest has returned the inbound result, and the outbound
\* goroutine has sent its result, which nobody receives, and is done
ResultSentWithoutReceiver ==
    /\ pc = "done"
    /\ started
    /\ errsOut.buf = <<>>
    /\ outPc = "done"
    /\ errsIn.buf = <<outErr>>

(* C18: each of errsOut, errsIn and exit is closed at most once, and       *)
(* exactly once when its goroutine is done, only by the goroutine that     *)
(* sends on it; each result channel gets exactly one send, before its      *)
(* close; the inbound result is sent and errsOut closed before exit is     *)
(* closed; no send is pending on a closed channel, and once exit is closed *)
(* a receive on errsOut does not block.                                    *)
ChannelDiscipline ==
    /\ \A c \in DOMAIN chanOps : chanOps[c].closes <= 1
    /\ chanOps["errsOut"].senders \cup chanOps["errsOut"].closers
          \cup chanOps["exit"].closers \subseteq {"inbound"}
    /\ chanOps["errsIn"].senders \cup chanOps["errsIn"].closers
          \subseteq {"outbound"}
    /\ chanOps["exit"].sends = 0
    /\ \A c \in {"errsOut", "errsIn"} :
          /\ chanOps[c].sends <= 1
          /\ chanOps[c].closes = 1 => chanOps[c].sends = 1
    /\ started =>
          /\ errsOut.closed = (chanOps["errsOut"].closes = 1)
          /\ errsIn.closed = (chanOps["errsIn"].closes = 1)
          /\ exit.closed = (chanOps["exit"].closes = 1)
    /\ exit.closed => (chanOps["errsOut"].sends = 1 /\ errsOut.closed)
    /\ inPc = "done" => (errsOut.closed /\ exit.closed)
    /\ outPc = "done" => errsIn.closed
    /\ inPc = "send" => ~errsOut.closed
    /\ outPc = "send" => ~errsIn.closed
    /\ exit.closed => CanRecv(errsOut)

\* both goroutines are done: every channel has been closed, once
AllChannelsClosed ==
    /\ inPc = "done"
    /\ outPc = "done"
    /\ \A c \in DOMAIN chanOps : chanOps[c].closes = 1

(* C19: the outbound goroutine calls CloseWrite exactly once on every      *)
(* path, after the input copy has succeeded or failed; with a nil          *)
(* InputStream it writes nothing to the stream, still calls CloseWrite     *)
(* once and reports no error.                                              *)
CloseWriteOncePerSession ==
    /\ CountCalls("closeWrite") = IF CloseWriteAttempted THEN 1 ELSE 0
    /\ options.InputStream.nil =>
          /\ CountCalls("write") = 0
          /\ consumed = 0
          /\ outErr = Nil
          /\ \A i \in 1..Len(errsIn.buf) : errsIn.buf[i] = Nil

\* no input was supplied: CloseWrite has been called, nothing was written
\* and the goroutine has reported nil
NilInputHalfClosed ==
    /\ options.InputStream.nil
    /\ outPc = "done"
    /\ rwcLog # <<>>
    /\ rwcLog[1] = "closeWrite"
    /\ chanOps["errsIn"].sends = 1

====
